---- MODULE Spec2Model ----
(***************************************************************************)
(* Model of gemini_chat_app/app.py: the Streamlit script's submit handler  *)
(* (lines 52-148) acting on the session history st.session_state.messages. *)
(* One script run with submit_button set is split at the blocking          *)
(* requests.post call: Submit is the handler up to the moment the request  *)
(* is on the wire, Respond is the return (or raise) of requests.post and   *)
(* the rest of the handler.                                                *)
(***************************************************************************)
EXTENDS Integers, Sequences, FiniteSets, TLC

\* ---------------------------------------------------------------- bounds
\* A submission is accepted by the model while the history holds fewer
\* turns than this.
MaxHistory == 3
\* Largest number of parts in a candidate's content.
MaxParts == 2

\* ---------------------------------------------------------------- inputs
Keys == {"", "k1"}
Prompts == {"", "Hello"}

NoFile == [present |-> FALSE, type |-> "", bytes |-> <<>>]
File(t, b) == [present |-> TRUE, type |-> t, bytes |-> b]
\* What the file picker can hand over: nothing, or a file with the mime type
\* the browser declared and its bytes. 4 and 5 bytes: a full base64 group
\* followed by a remainder of 1 and of 2 bytes.
Uploads ==
  { NoFile,
    File("image/png", <<137, 80, 78, 71>>),
    File("image/jpeg", <<255, 216, 255, 224, 0>>),
    File("image/gif", <<71>>) }

\* ---------------------------------------------------------------- base64
B64Alphabet ==
  << "A","B","C","D","E","F","G","H","I","J","K","L","M","N","O","P",
     "Q","R","S","T","U","V","W","X","Y","Z","a","b","c","d","e","f",
     "g","h","i","j","k","l","m","n","o","p","q","r","s","t","u","v",
     "w","x","y","z","0","1","2","3","4","5","6","7","8","9","+","/" >>

B64Char(n) == B64Alphabet[n + 1]
B64Index(c) == (CHOOSE i \in 1..64 : B64Alphabet[i] = c) - 1

RECURSIVE b64encode(_)
b64encode(bytes) ==
  IF Len(bytes) = 0 THEN <<>>
  ELSE IF Len(bytes) = 1 THEN
    << B64Char(bytes[1] \div 4), B64Char((bytes[1] % 4) * 16), "=", "=" >>
  ELSE IF Len(bytes) = 2 THEN
    << B64Char(bytes[1] \div 4),
       B64Char((bytes[1] % 4) * 16 + bytes[2] \div 16),
       B64Char((bytes[2] % 16) * 4), "=" >>
  ELSE
    << B64Char(bytes[1] \div 4),
       B64Char((bytes[1] % 4) * 16 + bytes[2] \div 16),
       B64Char((bytes[2] % 16) * 4 + bytes[3] \div 64),
       B64Char(bytes[3] % 64) >> \o b64encode(SubSeq(bytes, 4, Len(bytes)))

RECURSIVE b64decode(_)
b64decode(chars) ==
  IF Len(chars) < 4 THEN <<>>
  ELSE
    LET c1 == B64Index(chars[1])
        c2 == B64Index(chars[2])
        rest == b64decode(SubSeq(chars, 5, Len(chars)))
    IN  IF chars[3] = "=" THEN << c1 * 4 + c2 \div 16 >>
        ELSE IF chars[4] = "=" THEN
          << c1 * 4 + c2 \div 16,
             (c2 % 16) * 16 + B64Index(chars[3]) \div 4 >>
        ELSE
          << c1 * 4 + c2 \div 16,
             (c2 % 16) * 16 + B64Index(chars[3]) \div 4,
             (B64Index(chars[3]) % 4) * 64 + B64Index(chars[4]) >> \o rest

\* ---------------------------------------------------------------- network
\* A part of a candidate's content: a text part, or a part of another kind
\* (no "text" key).
TextVals == {"a", "b"}
ReplyPartVals == {[text |-> t] : t \in TextVals} \cup {[functionCall |-> "f"]}

RECURSIVE SeqsUpTo(_, _)
SeqsUpTo(S, n) ==
  IF n = 0 THEN {<<>>}
  ELSE LET shorter == SeqsUpTo(S, n - 1)
       IN  shorter \cup {Append(s, x) : s \in {t \in shorter : Len(t) = n - 1}, x \in S}

\* A candidate: ["content"]["parts"] resolves (hasContent) to a list of
\* parts, or one of the two keys is missing.
CandidateVals ==
  {[hasContent |-> TRUE, parts |-> ps] : ps \in SeqsUpTo(ReplyPartVals, MaxParts)}
    \cup {[hasContent |-> FALSE, parts |-> <<>>]}
\* A candidate that may follow the first one.
LaterCandidateVals ==
  { [hasContent |-> TRUE, parts |-> <<[text |-> "b"], [text |-> "a"]>>] }
CandidateLists ==
  {<<>>} \cup {<<c>> : c \in CandidateVals}
         \cup {<<c, d>> : c \in CandidateVals, d \in LaterCandidateVals}

\* Response bodies: text that is not JSON, a JSON number, a JSON list, or a
\* JSON object with or without a "candidates" list.
NoBody == [kind |-> "none", hasCandidates |-> FALSE, candidates |-> <<>>]
NotJson == [kind |-> "notjson", hasCandidates |-> FALSE, candidates |-> <<>>]
JsonNumber == [kind |-> "number", hasCandidates |-> FALSE, candidates |-> <<>>]
JsonList == [kind |-> "list", hasCandidates |-> FALSE, candidates |-> <<>>]
JsonObject == [kind |-> "object", hasCandidates |-> FALSE, candidates |-> <<>>]
JsonReply(cs) == [kind |-> "object", hasCandidates |-> TRUE, candidates |-> cs]

SuccessBodies ==
  {NotJson, JsonNumber, JsonList, JsonObject} \cup {JsonReply(cs) : cs \in CandidateLists}
ErrorBodies == {NotJson, JsonObject}

NoResponse == [kind |-> "none", status |-> 0, body |-> NoBody]
Raised(k) == [kind |-> k, status |-> 0, body |-> NoBody]
Http(s, b) == [kind |-> "response", status |-> s, body |-> b]

\* Everything requests.post can do: raise Timeout, ConnectionError or
\* another exception, or return a response with a status and a body.
Responses ==
  {Raised("Timeout"), Raised("ConnectionError"), Raised("Exception")}
    \cup {Http(200, b) : b \in SuccessBodies}
    \cup {Http(s, b) : s \in {400, 503}, b \in ErrorBodies}

\* ---------------------------------------------------------------- state
VARIABLES
  messages,             \* st.session_state.messages, the history
  state,                \* "Idle" or "AwaitingReply" (blocked in requests.post)
  api_key,              \* the inputs of the latest submission
  current_text_prompt,
  uploaded_file,
  before,               \* the history when the latest submission was made
  posts,                \* the requests the latest submission has issued
  response,             \* what requests.post did for the latest submission
  outcome,              \* how the latest submission ended
  banner,               \* the st.error / st.warning the latest submission showed
  shown,                \* the body the latest submission showed with st.json
  twin                  \* a second session, fed the same inputs under another key

vars ==
  << messages, state, api_key, current_text_prompt, uploaded_file, before,
     posts, response, outcome, banner, shown, twin >>

\* ---------------------------------------------------------------- handler
\* Faulty variant: the credential test never fires.
MissingKey_never(k) == FALSE

\* `not api_key`
MissingKey(k) == k = ""

\* Faulty variant: the empty-input test looks at the prompt only.
EmptyInput_prompt_only(p, f) == p = ""

\* Faulty variant: the empty-input test never fires.
EmptyInput_never(p, f) == FALSE

\* `not current_text_prompt and not uploaded_file`
EmptyInput(p, f) == p = "" /\ ~f.present

supported_mime_types == {"image/jpeg", "image/png", "image/webp"}

\* Faulty variant: image/gif passes the format test.
UnsupportedImage_gif(f) ==
  f.present /\ f.type \notin (supported_mime_types \cup {"image/gif"})

\* `mime_type not in supported_mime_types`, reached only with a file
UnsupportedImage(f) == f.present /\ f.type \notin supported_mime_types

\* Faulty variant: text and image are put into one part.
current_user_parts_merged(p, f) ==
  IF p # "" /\ f.present
  THEN <<[text |-> p,
          inlineData |-> [mimeType |-> f.type, data |-> b64encode(f.bytes)]]>>
  ELSE (IF p # "" THEN <<[text |-> p]>> ELSE <<>>)
         \o (IF f.present
             THEN <<[inlineData |-> [mimeType |-> f.type, data |-> b64encode(f.bytes)]]>>
             ELSE <<>>)

\* Faulty variant: the image part is put before the text part.
current_user_parts_image_first(p, f) ==
  (IF f.present
   THEN <<[inlineData |-> [mimeType |-> f.type, data |-> b64encode(f.bytes)]]>>
   ELSE <<>>)
    \o (IF p # "" THEN <<[text |-> p]>> ELSE <<>>)

\* The parts of the current submission: the text part if the prompt is
\* non-empty, then the inlineData part if a file was uploaded.
current_user_parts(p, f) ==
  (IF p # "" THEN <<[text |-> p]>> ELSE <<>>)
    \o (IF f.present
        THEN <<[inlineData |-> [mimeType |-> f.type, data |-> b64encode(f.bytes)]]>>
        ELSE <<>>)

model_name == "gemini-2.5-flash-preview-05-20"
url(k) == [model |-> model_name, key |-> k]

\* Faulty variant: only the current turn is sent.
payload_last_turn(ms) == [contents |-> <<ms[Len(ms)]>>]

\* payload = {"contents": st.session_state.messages}
payload(ms) == [contents |-> ms]

\* Faulty variant: the request is sent a second time.
Post_twice(ps, u, body) ==
  Append(Append(ps, [url |-> u, json |-> body]), [url |-> u, json |-> body])

\* Faulty variant: the credential travels in the request body too.
Post_key_in_body(ps, u, body) ==
  Append(ps, [url |-> u, json |-> [contents |-> body.contents, key |-> u.key]])

\* requests.post(url, headers=headers, json=payload, timeout=120): one
\* request goes out.
Post(ps, u, body) == Append(ps, [url |-> u, json |-> body])

\* response.raise_for_status() raises HTTPError for 4xx and 5xx.
raise_for_status(r) == 400 <= r.status /\ r.status < 600

\* Faulty variant: a first candidate without any text counts as no candidate.
HasCandidates_with_text(result) ==
  /\ result.hasCandidates
  /\ result.candidates # <<>>
  /\ \E j \in 1..Len(result.candidates[1].parts) :
        "text" \in DOMAIN result.candidates[1].parts[j]

\* `"candidates" in result and result["candidates"]`
HasCandidates(result) == result.hasCandidates /\ result.candidates # <<>>

\* "".join([part["text"] for part in reply_parts if "text" in part])
RECURSIVE reply_text(_)
reply_text(reply_parts) ==
  IF reply_parts = <<>> THEN ""
  ELSE (IF "text" \in DOMAIN Head(reply_parts) THEN Head(reply_parts).text ELSE "")
         \o reply_text(Tail(reply_parts))

\* Faulty variant: the last candidate is used instead of the first.
FirstCandidate_last(result) == result.candidates[Len(result.candidates)]

\* reply_parts = result["candidates"][0]["content"]["parts"]
FirstCandidate(result) == result.candidates[1]

\* {"role": "user", "parts": current_user_parts}
user_turn(parts) == [role |-> "user", parts |-> parts]

\* Faulty variant: the reply is stored under the user role.
model_turn_as_user(text) == [role |-> "user", parts |-> <<[text |-> text]>>]

\* {"role": "model", "parts": [{"text": reply_text}]}
model_turn(text) == [role |-> "model", parts |-> <<[text |-> text]>>]

\* Faulty variant: the oldest turn is removed instead of the newest.
pop_front(ms) == Tail(ms)

\* st.session_state.messages.pop()
pop(ms) == SubSeq(ms, 1, Len(ms) - 1)

\* Where the try block of lines 112-134 ends for what requests.post did:
\* in one of the four except clauses, in the else branch of the candidates
\* test ("Invalid"), or in the append of the model turn ("Reply").
TryBlock(r) ==
  IF r.kind # "response" THEN r.kind
  ELSE IF raise_for_status(r) THEN "HTTPError"
  ELSE IF r.body.kind = "notjson" THEN "Exception"     \* response.json() raises
  ELSE IF r.body.kind = "number" THEN "Exception"      \* `in` on a number raises
  ELSE IF r.body.kind = "list" THEN "Invalid"          \* "candidates" is no element
  ELSE IF ~HasCandidates(r.body) THEN "Invalid"
  ELSE IF ~FirstCandidate(r.body).hasContent THEN "Exception"   \* KeyError
  ELSE "Reply"

Init ==
  /\ messages = <<>>
  /\ state = "Idle"
  /\ api_key = ""
  /\ current_text_prompt = ""
  /\ uploaded_file = NoFile
  /\ before = <<>>
  /\ posts = <<>>
  /\ response = NoResponse
  /\ outcome = "None"
  /\ banner = "None"
  /\ shown = NoBody
  /\ twin = [messages |-> <<>>, posts |-> <<>>, state |-> "Idle",
             outcome |-> "None", banner |-> "None"]

\* A script run with submit_button set, up to the blocking requests.post:
\* the validations with their st.stop(), the append of the user turn and
\* the request going out.
Submit(k, p, f) ==
  /\ state = "Idle"
  /\ Len(messages) < MaxHistory
  /\ api_key' = k
  /\ current_text_prompt' = p
  /\ uploaded_file' = f
  /\ before' = messages
  /\ response' = NoResponse
  /\ shown' = NoBody
  /\ IF MissingKey(k) THEN
       /\ banner' = "MissingCredential"
       /\ outcome' = "Rejected"
       /\ posts' = <<>>
       /\ UNCHANGED <<messages, state>>
     ELSE IF EmptyInput(p, f) THEN
       /\ banner' = "EmptyInput"
       /\ outcome' = "Rejected"
       /\ posts' = <<>>
       /\ UNCHANGED <<messages, state>>
     ELSE IF UnsupportedImage(f) THEN
       /\ banner' = "UnsupportedImageFormat"
       /\ outcome' = "Rejected"
       /\ posts' = <<>>
       /\ UNCHANGED <<messages, state>>
     ELSE
       /\ messages' = Append(messages, user_turn(current_user_parts(p, f)))
       /\ posts' = Post(<<>>, url(k), payload(messages'))
       /\ banner' = "None"
       /\ outcome' = "Pending"
       /\ state' = "AwaitingReply"

\* requests.post returns or raises, and the handler runs to its end.
Respond(r) ==
  /\ state = "AwaitingReply"
  /\ state' = "Idle"
  /\ response' = r
  /\ UNCHANGED <<api_key, current_text_prompt, uploaded_file, before, posts>>
  /\ LET end == TryBlock(r) IN
     IF end = "Reply" THEN
       /\ messages' = Append(messages, model_turn(reply_text(FirstCandidate(r.body).parts)))
       /\ banner' = "None"
       /\ shown' = NoBody
       /\ outcome' = "Committed"
     ELSE IF end = "Invalid" THEN
       /\ banner' = "MalformedResponse"
       /\ shown' = r.body
       /\ messages' = pop(messages)
       /\ outcome' = "RolledBack"
     ELSE IF end = "Timeout" THEN
       /\ banner' = "Timeout"
       /\ shown' = NoBody
       /\ messages' = pop(messages)
       /\ outcome' = "RolledBack"
     ELSE IF end = "ConnectionError" THEN
       /\ banner' = "ConnectionFailure"
       /\ shown' = NoBody
       /\ messages' = pop(messages)
       /\ outcome' = "RolledBack"
     ELSE IF end = "HTTPError" THEN
       /\ banner' = "HttpError"
       /\ IF r.body.kind = "notjson" THEN
            \* e.response.json() raises inside the except clause: the
            \* exception leaves the handler before the pop of line 145.
            /\ shown' = NoBody
            /\ messages' = messages
            /\ outcome' = "Aborted"
          ELSE
            /\ shown' = r.body
            /\ messages' = pop(messages)
            /\ outcome' = "RolledBack"
     ELSE
       /\ banner' = "Unexpected"
       /\ shown' = NoBody
       /\ messages' = pop(messages)
       /\ outcome' = "RolledBack"

\* One session on its own.
Next ==
  \/ \E k \in Keys, p \in Prompts, f \in Uploads : Submit(k, p, f) /\ UNCHANGED twin
  \/ \E r \in Responses : Respond(r) /\ UNCHANGED twin

Spec == Init /\ [][Next]_vars

\* ---------------------------------------------------------------- two sessions
\* The credentials of the second session.
OtherKeys == {"k2"}

\* The handler up to requests.post, as a function of a session's history:
\* what Submit does to messages, posts, state, outcome and banner.
SubmitStep(t, k, p, f) ==
  IF MissingKey(k) THEN
    [t EXCEPT !.posts = <<>>, !.outcome = "Rejected", !.banner = "MissingCredential"]
  ELSE IF EmptyInput(p, f) THEN
    [t EXCEPT !.posts = <<>>, !.outcome = "Rejected", !.banner = "EmptyInput"]
  ELSE IF UnsupportedImage(f) THEN
    [t EXCEPT !.posts = <<>>, !.outcome = "Rejected", !.banner = "UnsupportedImageFormat"]
  ELSE
    LET ms == Append(t.messages, user_turn(current_user_parts(p, f)))
    IN  [messages |-> ms, posts |-> Post(<<>>, url(k), payload(ms)),
         state |-> "AwaitingReply", outcome |-> "Pending", banner |-> "None"]

\* The rest of the handler, as a function of a session's history: what
\* Respond does to messages, state, outcome and banner.
RespondStep(t, r) ==
  LET end == TryBlock(r) IN
  IF end = "Reply" THEN
    [t EXCEPT !.messages = Append(t.messages, model_turn(reply_text(FirstCandidate(r.body).parts))),
              !.state = "Idle", !.outcome = "Committed", !.banner = "None"]
  ELSE IF end = "HTTPError" /\ r.body.kind = "notjson" THEN
    [t EXCEPT !.state = "Idle", !.outcome = "Aborted", !.banner = "HttpError"]
  ELSE
    [t EXCEPT !.messages = pop(t.messages), !.state = "Idle", !.outcome = "RolledBack",
              !.banner = CASE end = "Invalid" -> "MalformedResponse"
                           [] end = "Timeout" -> "Timeout"
                           [] end = "ConnectionError" -> "ConnectionFailure"
                           [] end = "HTTPError" -> "HttpError"
                           [] OTHER -> "Unexpected"]

\* Two sessions receive the same prompt and image, each under its own
\* non-empty credential.
SubmitBoth(k, k2, p, f) ==
  /\ twin.state = "Idle"
  /\ Submit(k, p, f)
  /\ twin' = SubmitStep(twin, k2, p, f)

\* The API gives both sessions the same outcome.
RespondBoth(r) ==
  /\ twin.state = "AwaitingReply"
  /\ Respond(r)
  /\ twin' = RespondStep(twin, r)

NextTwin ==
  \/ \E k \in Keys \ {""}, k2 \in OtherKeys, p \in Prompts, f \in Uploads :
       SubmitBoth(k, k2, p, f)
  \/ \E r \in Responses : RespondBoth(r)

SpecTwin == Init /\ [][NextTwin]_vars

\* ---------------------------------------------------------------- properties
\* The latest submission passed the three validations, judged from its
\* inputs alone.
ValidInputs ==
  /\ api_key # ""
  /\ current_text_prompt # "" \/ uploaded_file.present
  /\ uploaded_file.present =>
       uploaded_file.type \in {"image/jpeg", "image/png", "image/webp"}

\* The API call of the latest submission failed: requests.post raised, the
\* status was an error status, or the body held no usable candidate.
ApiCallFailed == response # NoResponse /\ TryBlock(response) # "Reply"

\* Every user turn is directly followed by a model turn.
Paired(ms) ==
  /\ Len(ms) % 2 = 0
  /\ \A i \in 1..Len(ms) : ms[i].role = (IF i % 2 = 1 THEN "user" ELSE "model")

\* C1: whenever the API call of a validated submission failed, in whatever
\* way, the history at the end of the cycle equals the history at its start.
RollbackRestoresHistory ==
  (state = "Idle" /\ ApiCallFailed) => messages = before

\* C2: whenever the controller is Idle the history is a sequence of
\* (user, model) pairs: no user turn is left without its reply.
NoOrphanedUserTurn ==
  state = "Idle" => Paired(messages)

\* C3: a submission with an empty prompt and no image is rejected, issues no
\* request and leaves the history as it was, whatever the credential.
EmptySubmissionRejected ==
  (outcome # "None" /\ current_text_prompt = "" /\ ~uploaded_file.present) =>
    /\ state = "Idle"
    /\ outcome = "Rejected"
    /\ posts = <<>>
    /\ messages = before

EmptySubmissionWitness ==
  /\ outcome = "Rejected"
  /\ banner = "EmptyInput"
  /\ api_key # ""
  /\ current_text_prompt = "" /\ ~uploaded_file.present
  /\ messages # <<>>

\* C4: a submission with an empty credential is rejected, issues no request
\* and leaves the history as it was, whatever the prompt and the image.
MissingCredentialRejected ==
  (outcome # "None" /\ api_key = "") =>
    /\ state = "Idle"
    /\ outcome = "Rejected"
    /\ banner = "MissingCredential"
    /\ posts = <<>>
    /\ messages = before

MissingCredentialWitness ==
  /\ outcome = "Rejected"
  /\ api_key = ""
  /\ current_text_prompt # ""
  /\ uploaded_file.present
  /\ messages # <<>>

\* The latest submission carried an image of a type other than JPEG, PNG
\* and WEBP.
OtherImageType ==
  /\ outcome # "None"
  /\ uploaded_file.present
  /\ uploaded_file.type \notin {"image/jpeg", "image/png", "image/webp"}

\* C5 as stated: every submission whose image has another declared type is
\* rejected with UnsupportedImageFormat, with no turn appended and no
\* request issued.
UnsupportedImageRejectedAsSuch ==
  OtherImageType =>
    /\ outcome = "Rejected"
    /\ banner = "UnsupportedImageFormat"
    /\ posts = <<>>
    /\ messages = before

\* C5 as amended: such a submission is rejected with no turn appended and no
\* request issued; the message is UnsupportedImageFormat when the credential
\* is present and MissingCredential when it is absent.
UnsupportedImageRejected ==
  OtherImageType =>
    /\ state = "Idle"
    /\ outcome = "Rejected"
    /\ banner = (IF api_key = "" THEN "MissingCredential" ELSE "UnsupportedImageFormat")
    /\ posts = <<>>
    /\ messages = before

UnsupportedImageWitness ==
  /\ OtherImageType
  /\ api_key # ""
  /\ current_text_prompt # ""
  /\ banner = "UnsupportedImageFormat"
  /\ messages # <<>>

\* The turn the latest submission appended, while it is in the history.
UserTurnInHistory == outcome \in {"Pending", "Committed", "Aborted"}
SubmittedTurn == messages[Len(before) + 1]

\* The text of a reply part and the concatenation of the first n of them,
\* counted from the front.
TextOf(part) == IF "text" \in DOMAIN part THEN part.text ELSE ""
RECURSIVE ConcatFirst(_, _)
ConcatFirst(parts, n) ==
  IF n = 0 THEN "" ELSE ConcatFirst(parts, n - 1) \o TextOf(parts[n])

\* C6: a validated submission whose API call succeeds extends the history by
\* exactly two turns: the user turn with the submitted parts, then a model
\* turn with exactly one text part; the earlier turns are untouched.
SuccessAppendsTwoTurns ==
  outcome = "Committed" =>
    /\ Len(messages) = Len(before) + 2
    /\ SubSeq(messages, 1, Len(before)) = before
    /\ messages[Len(before) + 1].role = "user"
    /\ messages[Len(before) + 1].parts # <<>>
    /\ (current_text_prompt = "Hello" /\ ~uploaded_file.present) =>
         messages[Len(before) + 1] = [role |-> "user", parts |-> <<[text |-> "Hello"]>>]
    /\ messages[Len(before) + 2].role = "model"
    /\ Len(messages[Len(before) + 2].parts) = 1
    /\ DOMAIN messages[Len(before) + 2].parts[1] = {"text"}
    /\ LET first == response.body.candidates[1].parts
       IN  messages[Len(before) + 2].parts[1].text = ConcatFirst(first, Len(first))

SuccessWitness ==
  /\ outcome = "Committed"
  /\ before # <<>>
  /\ current_text_prompt = "Hello" /\ ~uploaded_file.present

\* C7: the reply text is the concatenation, in order and with no separator,
\* of the text parts of the first candidate; parts without text and later
\* candidates contribute nothing.
ReplyTextIsConcatenation ==
  outcome = "Committed" =>
    LET first == response.body.candidates[1].parts
    IN  messages[Len(messages)].parts[1].text = ConcatFirst(first, Len(first))

ReplyTextWitness ==
  /\ outcome = "Committed"
  /\ Len(response.body.candidates) = 2
  /\ response.body.candidates[1].parts = <<[text |-> "a"], [text |-> "b"]>>
  /\ messages[Len(messages)].parts[1].text = "ab"

\* C8: the user turn of a validated submission holds the text part if the
\* prompt is non-empty, then the image part (mime type and base64 of the
\* bytes) if an image is present, and nothing else.
UserTurnParts ==
  UserTurnInHistory =>
    LET parts == SubmittedTurn.parts
        hasText == current_text_prompt # ""
        hasImage == uploaded_file.present
        img == parts[Len(parts)]
    IN  /\ SubmittedTurn.role = "user"
        /\ Len(parts) = (IF hasText THEN 1 ELSE 0) + (IF hasImage THEN 1 ELSE 0)
        /\ hasText => parts[1] = [text |-> current_text_prompt]
        /\ hasImage =>
             /\ DOMAIN img = {"inlineData"}
             /\ img.inlineData.mimeType = uploaded_file.type
             /\ b64decode(img.inlineData.data) = uploaded_file.bytes
        /\ (hasImage /\ uploaded_file.bytes = <<137, 80, 78, 71>>) =>
             img.inlineData.data = <<"i", "V", "B", "O", "R", "w", "=", "=">>
        /\ (hasImage /\ uploaded_file.bytes = <<255, 216, 255, 224, 0>>) =>
             img.inlineData.data = <<"/", "9", "j", "/", "4", "A", "A", "=">>

UserTurnPartsWitness ==
  /\ state = "AwaitingReply"
  /\ current_text_prompt # ""
  /\ uploaded_file.present
  /\ Len(SubmittedTurn.parts) = 2
  /\ before # <<>>

\* C9: the body of the request holds the entire history at send time, turn
\* for turn and in order, ending with the user turn of this submission.
PayloadIsWholeHistory ==
  posts # <<>> =>
    LET contents == posts[1].json.contents
    IN  /\ Len(contents) = Len(before) + 1
        /\ SubSeq(contents, 1, Len(before)) = before
        /\ contents[Len(contents)].role = "user"
        /\ UserTurnInHistory => contents[Len(contents)] = SubmittedTurn
        /\ state = "AwaitingReply" => contents = messages

PayloadWitness ==
  /\ state = "AwaitingReply"
  /\ posts # <<>>
  /\ Len(before) >= 2

\* C10: a submission that passes validation issues exactly one request and a
\* rejected one none; no failure makes the handler send again.
OnePostPerValidatedSubmission ==
  outcome # "None" =>
    /\ Len(posts) = (IF ValidInputs THEN 1 ELSE 0)
    /\ outcome = "Rejected" <=> ~ValidInputs
    /\ ApiCallFailed => (state = "Idle" /\ Len(posts) = 1)

OnePostWitness ==
  /\ outcome = "RolledBack"
  /\ banner = "Timeout"
  /\ Len(posts) = 1
  /\ before # <<>>

\* C11: every failed API call surfaces exactly one of the five failure
\* messages, the one matching what happened: Timeout for a timed-out
\* request, ConnectionFailure for a connection error, HttpError for an error
\* status, MalformedResponse for a success status without candidates; and
\* HttpError and MalformedResponse also surface the raw response body.
FailureClassifiedAndSurfaced ==
  (state = "Idle" /\ ApiCallFailed) =>
    /\ banner \in {"Timeout", "ConnectionFailure", "HttpError",
                   "MalformedResponse", "Unexpected"}
    /\ response.kind = "Timeout" => banner = "Timeout"
    /\ response.kind = "ConnectionError" => banner = "ConnectionFailure"
    /\ (response.kind = "response" /\ response.status >= 400) => banner = "HttpError"
    /\ ( /\ response.kind = "response"
         /\ response.status = 200
         /\ response.body.kind = "object"
         /\ ~response.body.hasCandidates \/ response.body.candidates = <<>> )
         => banner = "MalformedResponse"
    /\ banner \in {"HttpError", "MalformedResponse"} => shown = response.body

\* C12: every submission that passed validation and appended its user turn
\* ends, once the controller is back in Idle, either Committed (the model
\* turn follows the user turn) or RolledBack (the user turn is gone), and in
\* no third way.
CycleEndsCommittedOrRolledBack ==
  (state = "Idle" /\ outcome # "None" /\ ValidInputs) =>
    \/ /\ outcome = "Committed"
       /\ Len(messages) = Len(before) + 2
       /\ messages[Len(messages)].role = "model"
    \/ /\ outcome = "RolledBack"
       /\ messages = before

\* C15: in every reachable state every turn of the history has the role
\* user or model and at least one part, and every part carries exactly one
\* of the two tags, text or inline image.
TurnsWellFormed ==
  \A i \in 1..Len(messages) :
    /\ messages[i].role \in {"user", "model"}
    /\ messages[i].parts # <<>>
    /\ \A j \in 1..Len(messages[i].parts) :
         DOMAIN messages[i].parts[j] \in {{"text"}, {"inlineData"}}

TurnsWellFormedWitness ==
  /\ Len(messages) >= 2
  /\ messages[Len(messages)].role = "model"
  /\ Len(messages[Len(messages) - 1].parts) = 2

\* C16: the history only grows by appends, except that the cycle in flight
\* may remove, once and as its last act, the user turn it appended itself:
\* the history at the start of a cycle is a prefix of the history at every
\* later point of it, a removal takes exactly the newest turn, that turn is
\* the cycle's own user turn, and no other turn is removed or changed.
AppendOnlyApartFromRollback ==
  [][ /\ SubSeq(messages', 1, Len(before')) = before'
      /\ Len(messages') >= Len(messages) =>
           SubSeq(messages', 1, Len(messages)) = messages
      /\ Len(messages') < Len(messages) =>
           /\ state = "AwaitingReply" /\ state' = "Idle"
           /\ Len(messages) = Len(before) + 1
           /\ messages[Len(messages)].role = "user"
           /\ messages' = SubSeq(messages, 1, Len(messages) - 1)
           /\ messages' = before
    ]_vars

RollbackWitness ==
  /\ outcome = "RolledBack"
  /\ Len(before) >= 2
  /\ messages = before

\* The API answered with a success status and a candidate list whose first
\* candidate has parts, none of them a text part.
NoTextReply ==
  /\ state = "Idle"
  /\ response.kind = "response"
  /\ response.status = 200
  /\ response.body.kind = "object"
  /\ response.body.hasCandidates
  /\ response.body.candidates # <<>>
  /\ response.body.candidates[1].hasContent
  /\ \A j \in 1..Len(response.body.candidates[1].parts) :
       "text" \notin DOMAIN response.body.candidates[1].parts[j]

\* C17: such a response is a success: the cycle commits a model turn whose
\* single text part is the empty string, keeps the user turn and shows no
\* error.
EmptyReplyIsSuccess ==
  NoTextReply =>
    /\ outcome = "Committed"
    /\ banner = "None"
    /\ Len(messages) = Len(before) + 2
    /\ messages[Len(messages) - 1].role = "user"
    /\ messages[Len(messages)] = [role |-> "model", parts |-> <<[text |-> ""]>>]

EmptyReplyWitness ==
  /\ NoTextReply
  /\ response.body.candidates[1].parts = <<[functionCall |-> "f"]>>
  /\ outcome = "Committed"

\* C18: the validations run in the order credential, empty input, image
\* format and stop at the first that fails, so the message shown is
\* MissingCredential before EmptyInput before UnsupportedImageFormat, and the
\* user turn is appended only after all three have passed.
ValidationOrder ==
  outcome # "None" =>
    /\ IF api_key = "" THEN
         outcome = "Rejected" /\ banner = "MissingCredential"
       ELSE IF current_text_prompt = "" /\ ~uploaded_file.present THEN
         outcome = "Rejected" /\ banner = "EmptyInput"
       ELSE IF uploaded_file.type \notin {"image/jpeg", "image/png", "image/webp"}
               /\ uploaded_file.present THEN
         outcome = "Rejected" /\ banner = "UnsupportedImageFormat"
       ELSE
         /\ outcome # "Rejected"
         /\ banner \notin {"MissingCredential", "EmptyInput", "UnsupportedImageFormat"}
    /\ Len(messages) > Len(before) => ValidInputs
    /\ posts # <<>> => ValidInputs

ValidationOrderWitness ==
  /\ outcome = "Rejected"
  /\ api_key = ""
  /\ uploaded_file.present /\ uploaded_file.type = "image/gif"
  /\ banner = "MissingCredential"
  /\ messages # <<>>

\* C14: two sessions that receive the same prompts, images and API outcomes
\* under different non-empty credentials hold the same history and send the
\* same request bodies at every step; the credential appears in the request
\* endpoint only.
CredentialOnlyInEndpoint ==
  /\ twin.messages = messages
  /\ twin.state = state
  /\ twin.outcome = outcome
  /\ Len(twin.posts) = Len(posts)
  /\ \A i \in 1..Len(posts) :
       /\ twin.posts[i].json = posts[i].json
       /\ DOMAIN posts[i].json = {"contents"}
       /\ posts[i].url.key = api_key
       /\ twin.posts[i].url.key \in OtherKeys
       /\ twin.posts[i].url.key # posts[i].url.key

CredentialWitness ==
  /\ state = "AwaitingReply"
  /\ Len(messages) >= 3
  /\ twin.messages = messages
  /\ twin.posts[1].url.key = "k2" /\ posts[1].url.key = "k1"

====
